---- MODULE Spec2Model ----
(***************************************************************************)
(* Model of the collaboration server of realtime-collaborative-editor:     *)
(* YjsSocketProvider (backend/src/yjs-provider.ts) over DocumentPersistence *)
(* (backend/src/persistence.ts).  One action per event-loop turn: a        *)
(* socket event handler, the continuation of an awaited store operation,   *)
(* or a timer callback.                                                     *)
(*                                                                          *)
(* A Y.Doc is an object with identity: it is a handle 1..MaxDocs, and       *)
(* docState[h] is the set of updates applied to it.  A state vector and an  *)
(* encoded snapshot of a document are abstracted to that set.               *)
(* An optional value (a Map entry, a LevelDB key) is a set of at most one   *)
(* element: {} when the key is absent, {v} when it maps to v.               *)
(***************************************************************************)
EXTENDS Integers, Sequences, FiniteSets, TLC

\* ---- bounds of the model ----
MaxSockets == 2
MaxDocs == 2
MaxUpdates == 1
MaxListeners == 2
\* handlers per socket in the specification of interleaved joins
MaxJoinListeners == 3
MaxGrace == 1
MaxTimers == 2
MaxWrites == 1
MaxOrderUpdates == 2
MaxLog == 3

Sockets == 1..MaxSockets
DocIds == {"A", "B"}
\* the documents that receive doc-update messages
UpdateDocIds == {"A"}
Handles == 1..MaxDocs
Updates == 1..MaxUpdates
TimerIds == 1..MaxTimers

None == 0
NoDocId == "none"
Console == 0

VARIABLES
  documents,           \* docId -> handle of the registered Y.Doc, or None
  awareness,           \* docId -> handle the registered Awareness was built from, or None
  clients,             \* docId -> optional set of sockets
  saveDebounceTimers,  \* docId -> id of the recorded debounce timer, or None
  docState,            \* handle -> updates applied to that Y.Doc
  nextDoc,             \* number of Y.Doc objects constructed so far
  loading,             \* join-doc handlers suspended at await loadDocument
  timers,              \* debounce timer id -> optional [docId, doc, state]
  graceTimers,         \* pending cleanup timeouts, in firing order
  writes,              \* db.put operations in flight
  store,               \* docId -> optional snapshot in LevelDB
  sockStatus,          \* socket -> "connected" | "disconnected"
  sockDocId,           \* socket -> (socket as any).docId, or NoDocId
  rooms,               \* socket -> socket.io rooms the socket is in
  listeners,           \* socket -> registered handler closures, in order
  emitted,             \* messages emitted by the last turn, in order
  event,               \* the event dispatched in the last turn
  applyLog,            \* history: docId -> [update, doc, room] applied by doc-update handlers, in order
  inbox,               \* history: socket -> doc-update messages delivered to it, in order
  client,              \* socket -> the SocketProvider behind it: [replica, phase, synced]
  channel,             \* socket -> messages emitted to it and not yet received, in order
  outbox               \* socket -> messages its client emitted and the server has not dispatched, in order

vars == <<documents, awareness, clients, saveDebounceTimers, docState, nextDoc,
          loading, timers, graceTimers, writes, store, sockStatus, sockDocId,
          rooms, listeners, emitted, event, applyLog, inbox, client, channel, outbox>>

\* what no handler of the server reads or writes: the history of the
\* doc-update turns and the client side of the connections
history == <<applyLog, inbox, client, channel, outbox>>

\* ---- optional values ----
Absent == {}
Some(v) == {v}
The(o) == CHOOSE v \in o : TRUE

\* ---- messages ----
\* data is the document payload (a set of updates), entries the presence
\* payload (a set of [replica, fields] entries)
Msg(to, kind, d, from, data) ==
  [to |-> to, kind |-> kind, docId |-> d, from |-> from, data |-> data, entries |-> {}]

Ev(op, s, d) == [op |-> op, sock |-> s, docId |-> d]

\* socket.to(docId).emit(kind, ...): one message to every socket of the
\* socket.io room except the sender, in socket order
RECURSIVE BroadcastFrom(_, _, _, _, _, _)
BroadcastFrom(i, rm, s, kind, d, data) ==
  IF i > MaxSockets THEN <<>>
  ELSE (IF i # s /\ d \in rm[i] THEN <<Msg(i, kind, d, s, data)>> ELSE <<>>)
       \o BroadcastFrom(i + 1, rm, s, kind, d, data)

Broadcast(rm, s, kind, d, data) == BroadcastFrom(1, rm, s, kind, d, data)

\* socket.emit(kind, ...): dropped when the connection is closed
Unicast(s, kind, d, data) ==
  IF sockStatus[s] = "connected" THEN <<Msg(s, kind, d, Console, data)>> ELSE <<>>

\* ---- presence (y-protocols Awareness) ----

\* the replica id a client names in its presence entries: the clientID of
\* the client's own document
ReplicaOf(s) == s

\* the clientID of the server-side Y.Doc h
ServerReplica(h) == MaxSockets + h

\* the local state {} that the Awareness constructor sets for its own replica
EmptyState == "{}"
NullState == "null"
CursorStates == {"cursor"}

\* awareness.getStates() of the Awareness registered for docId d in the map
\* aw: the server never applies a client's entry to it, so it holds the
\* entry of its own replica only
GetStates(aw, d) ==
  IF aw[d] = None THEN {}
  ELSE {[replica |-> ServerReplica(aw[d]), fields |-> EmptyState]}

\* a message with a presence payload
PresenceMsg(m, entries) == [m EXCEPT !.entries = entries]

\* socket.emit('awareness-update', ...) of the join-doc handler, sent only
\* if (awarenessState.size > 0)
SendStates(s, d, states) ==
  IF states = {} THEN <<>>
  ELSE LET out == Unicast(s, "awareness-update", d, {})
       IN [i \in DOMAIN out |-> PresenceMsg(out[i], states)]

Init ==
  /\ documents = [d \in DocIds |-> None]
  /\ awareness = [d \in DocIds |-> None]
  /\ clients = [d \in DocIds |-> Absent]
  /\ saveDebounceTimers = [d \in DocIds |-> None]
  /\ docState = [h \in Handles |-> {}]
  /\ nextDoc = 0
  /\ loading = {}
  /\ timers = [t \in TimerIds |-> Absent]
  /\ graceTimers = <<>>
  /\ writes = <<>>
  /\ store \in {[d \in DocIds |-> Absent],
                [d \in DocIds |-> IF d = "A" THEN Some(Updates) ELSE Absent]}
  /\ sockStatus = [s \in Sockets |-> "connected"]
  /\ sockDocId = [s \in Sockets |-> NoDocId]
  /\ rooms = [s \in Sockets |-> {}]
  /\ listeners = [s \in Sockets |-> <<>>]
  /\ emitted = <<>>
  /\ event = Ev("init", None, NoDocId)
  /\ applyLog = [d \in DocIds |-> <<>>]
  /\ inbox = [s \in Sockets |-> <<>>]
  /\ client = [s \in Sockets |-> [replica |-> {}, phase |-> "offline", synced |-> FALSE]]
  /\ channel = [s \in Sockets |-> <<>>]
  /\ outbox = [s \in Sockets |-> <<>>]

\* ---- join-doc ----

\* faulty variant of NoDocument: a document is constructed on every join
NoDocument_Always(d) == TRUE

\* if (!doc): no Y.Doc is registered for the docId
NoDocument(d) == documents[d] = None

\* the clients map after the socket left its previous document
LeavePrevious(s, d) ==
  LET cur == sockDocId[s] IN
  IF cur # NoDocId /\ cur # d /\ clients[cur] # Absent
  THEN [clients EXCEPT ![cur] = Some(The(@) \ {s})]
  ELSE clients

\* socket.leave(currentDocId) and socket.join(docId)
RoomsAfterJoin(s, d) ==
  LET cur == sockDocId[s] IN
  [rooms EXCEPT ![s] = (IF cur # NoDocId /\ cur # d THEN @ \ {cur} ELSE @) \cup {d}]

\* removeAllListeners(...) only when the socket is already in this document
ListenersKept(s, d) == IF sockDocId[s] = d THEN <<>> ELSE listeners[s]

\* a participant was added to docId d: the cleanup timeouts pending for d
\* were armed by a departure that is no longer the last one
MarkRejoined(d) ==
  [i \in DOMAIN graceTimers |->
     IF graceTimers[i].docId = d
     THEN [graceTimers[i] EXCEPT !.rejoined = TRUE]
     ELSE graceTimers[i]]

\* the join-doc handler from "Initialize or get awareness" to its end, run
\* with document h, on the clients map cl, the rooms rm, the listeners ls of
\* the socket and the document contents ds
JoinRest(s, d, h, cl, rm, ls, ds) ==
  /\ awareness' = IF awareness[d] = None THEN [awareness EXCEPT ![d] = h] ELSE awareness
  /\ clients' = [cl EXCEPT ![d] = Some((IF @ = Absent THEN {} ELSE The(@)) \cup {s})]
  /\ sockDocId' = [sockDocId EXCEPT ![s] = d]
  /\ rooms' = rm
  /\ docState' = ds
  /\ emitted' = Unicast(s, "sync-step1", d, ds[h])
                \o SendStates(s, d, GetStates(awareness', d))
                \o Broadcast(rm, s, "user-joined", d, {})
  /\ listeners' = [listeners EXCEPT ![s] = Append(ls, [docId |-> d, doc |-> h])]
  /\ graceTimers' = MarkRejoined(d)

\* number of handlers the socket has or will have once its joins resume
ListenerLoad(s) == Len(listeners[s]) + Cardinality({l \in loading : l.sock = s})

\* the first turn of the join-doc handler on a valid payload
JoinTurn(s, d) ==
  /\ sockStatus[s] = "connected"
  /\ event' = Ev("join-doc", s, d)
  /\ IF NoDocument(d)
     THEN /\ nextDoc < MaxDocs
          /\ nextDoc' = nextDoc + 1
          /\ documents' = [documents EXCEPT ![d] = nextDoc + 1]
          /\ loading' = loading \cup {[sock |-> s, docId |-> d, doc |-> nextDoc + 1]}
          /\ clients' = LeavePrevious(s, d)
          /\ rooms' = RoomsAfterJoin(s, d)
          /\ listeners' = [listeners EXCEPT ![s] = ListenersKept(s, d)]
          /\ emitted' = <<>>
          /\ UNCHANGED <<awareness, docState, sockDocId, graceTimers>>
     ELSE /\ JoinRest(s, d, documents[d], LeavePrevious(s, d), RoomsAfterJoin(s, d),
                      ListenersKept(s, d), docState)
          /\ UNCHANGED <<documents, nextDoc, loading>>
  /\ UNCHANGED <<saveDebounceTimers, timers, writes, store, sockStatus>>
  /\ UNCHANGED history

JoinDoc(s, d) ==
  /\ ListenerLoad(s) < MaxListeners \/ sockDocId[s] = d
  /\ JoinTurn(s, d)

\* the same handler, for a socket that may hold one more handler
JoinDocDeep(s, d) ==
  /\ ListenerLoad(s) < MaxJoinListeners \/ sockDocId[s] = d
  /\ JoinTurn(s, d)

\* persistence.loadDocument: the stored snapshot, or null when the key is absent
LoadDocument(d) == store[d]

\* await loadDocument resolved: the suspended join-doc handler resumes with
\* the document it constructed
LoadComplete(l) ==
  /\ l \in loading
  /\ loading' = loading \ {l}
  /\ event' = Ev("load-done", l.sock, l.docId)
  /\ LET persisted == LoadDocument(l.docId)
         ds == IF persisted # Absent
               THEN [docState EXCEPT ![l.doc] = @ \cup The(persisted)]
               ELSE docState
     IN JoinRest(l.sock, l.docId, l.doc, clients, rooms, listeners[l.sock], ds)
  /\ UNCHANGED <<documents, nextDoc, saveDebounceTimers, timers, writes, store, sockStatus>>
  /\ UNCHANGED history

\* await loadDocument rejected (an error other than LEVEL_NOT_FOUND): the
\* outer catch of the join-doc handler logs it and the handler ends
LoadFail(l) ==
  /\ l \in loading
  /\ loading' = loading \ {l}
  /\ event' = Ev("load-failed", l.sock, l.docId)
  /\ emitted' = <<Msg(Console, "error", l.docId, l.sock, {})>>
  /\ UNCHANGED <<documents, awareness, clients, saveDebounceTimers, docState, nextDoc,
                 timers, graceTimers, writes, store, sockStatus, sockDocId, rooms,
                 listeners>>
  /\ UNCHANGED history

\* ---- doc-update and the debounced save ----

FreeTimers(tm) == {t \in TimerIds : tm[t] = Absent}

\* clearTimeout: cancels a timeout that has not fired yet, no effect otherwise
ClearTimeout(tm, t) ==
  IF t # None /\ tm[t] # Absent /\ The(tm[t]).state = "armed"
  THEN [tm EXCEPT ![t] = Absent]
  ELSE tm

\* the timer table entry cleared by debouncedSave before it arms a new timer
ExistingTimer(map, d) == map[d]

\* debouncedSave(docId, doc) on the state st = [ds, map, tm, out, ok]
DebouncedSave(st, d, h) ==
  LET tm1 == ClearTimeout(st.tm, ExistingTimer(st.map, d))
      free == FreeTimers(tm1)
  IN IF free = {} THEN [st EXCEPT !.ok = FALSE]
     ELSE LET t == CHOOSE x \in free : \A y \in free : x <= y
          IN [st EXCEPT !.map = [@ EXCEPT ![d] = t],
                        !.tm = [tm1 EXCEPT ![t] = Some([docId |-> d, doc |-> h, state |-> "armed"])]]

\* faulty variant of Relayed: the broadcast carries another update
Relayed_Other(u) == (u % MaxOrderUpdates) + 1

\* the payload of the broadcast: the update that was applied
Relayed(u) == u

\* a payload that is not a decodable update
Corrupt == 0

\* faulty variant of ApplyThrows: every payload is taken as an update
ApplyThrows_Never(u) == FALSE

\* Y.applyUpdate(doc, update) throws on a payload it cannot decode and
\* leaves the document as it was
ApplyThrows(u) == u = Corrupt

\* faulty variant of Accepts: no message passes the guard of the handler
Accepts_Never(l, d) == FALSE

\* the guard of a handler closure l on a message for docId d: the negation
\* of (!data || data.docId !== docId); nothing else is looked at
Accepts(l, d) == l.docId = d

\* every doc-update handler registered on the socket runs, in registration
\* order, on a message {docId: d, data: u}
RECURSIVE HandleDocUpdate(_, _, _, _, _)
HandleDocUpdate(ls, s, d, u, st) ==
  IF ls = <<>> THEN st
  ELSE LET l == Head(ls) IN
       IF ~Accepts(l, d) THEN HandleDocUpdate(Tail(ls), s, d, u, st)
       ELSE IF ApplyThrows(u)
       THEN HandleDocUpdate(Tail(ls), s, d, u,
              [st EXCEPT !.out = @ \o <<Msg(Console, "apply-error", d, s, {})>>])
       ELSE HandleDocUpdate(Tail(ls), s, d, u,
              DebouncedSave([st EXCEPT !.ds = [@ EXCEPT ![l.doc] = @ \cup {u}],
                                       !.out = @ \o Broadcast(rooms, s, "doc-update", d, {Relayed(u)})],
                            d, l.doc))

\* the turn that dispatches a doc-update message {docId: d, data: u} of
\* socket s, without the history
DocUpdateTurn(s, d, u) ==
  /\ sockStatus[s] = "connected"
  /\ \E i \in DOMAIN listeners[s] : listeners[s][i].docId = d
  /\ LET r == HandleDocUpdate(listeners[s], s, d, u,
                [ds |-> docState, map |-> saveDebounceTimers, tm |-> timers,
                 out |-> <<>>, ok |-> TRUE])
     IN /\ r.ok
        /\ docState' = r.ds
        /\ saveDebounceTimers' = r.map
        /\ timers' = r.tm
        /\ emitted' = r.out
  /\ event' = Ev("doc-update", s, d)
  /\ UNCHANGED <<documents, awareness, clients, nextDoc, loading, graceTimers, writes,
                 store, sockStatus, sockDocId, rooms, listeners>>

DocUpdate(s, d, u) ==
  /\ DocUpdateTurn(s, d, u)
  /\ UNCHANGED history

\* persistence.saveDocument(docId, doc): the state is encoded at the call,
\* the put completes later; by names the caller and t is the debounce timer
\* whose callback awaits the put, or None
SaveDocument(d, h, by, t) ==
  [docId |-> d, doc |-> h, data |-> docState[h], by |-> by, timer |-> t]

\* the debounce timeout fires: its callback calls saveDocument and awaits it
DebounceFire(t) ==
  /\ timers[t] # Absent
  /\ The(timers[t]).state = "armed"
  /\ Len(writes) < MaxWrites
  /\ timers' = [timers EXCEPT ![t] = Some([The(@) EXCEPT !.state = "saving"])]
  /\ writes' = Append(writes, SaveDocument(The(timers[t]).docId, The(timers[t]).doc, "debounce", t))
  /\ event' = Ev("debounce-timer", None, The(timers[t]).docId)
  /\ emitted' = <<>>
  /\ UNCHANGED <<documents, awareness, clients, saveDebounceTimers, docState, nextDoc,
                 loading, graceTimers, store, sockStatus, sockDocId, rooms, listeners>>
  /\ UNCHANGED history

RemoveAt(q, i) == [j \in 1..(Len(q) - 1) |-> IF j < i THEN q[j] ELSE q[j + 1]]

\* the timer table after the callback of debounce timer t has finished:
\* this.saveDebounceTimers.delete(docId)
AfterSave(w) ==
  IF w.timer = None THEN saveDebounceTimers
  ELSE [saveDebounceTimers EXCEPT ![w.docId] = None]

\* faulty variant of SettledTimer: a failed save re-arms its timer
SettledTimer_Retry(tm, w, ok) ==
  IF w.timer = None THEN tm
  ELSE IF ok THEN [tm EXCEPT ![w.timer] = Absent]
       ELSE [tm EXCEPT ![w.timer] = Some([The(@) EXCEPT !.state = "armed"])]

\* the timers after the callback of the debounce timer that awaited the put
\* w has ended: the callback ends the same way whether the save succeeded
\* or was caught failing
SettledTimer(tm, w, ok) ==
  IF w.timer = None THEN tm ELSE [tm EXCEPT ![w.timer] = Absent]

\* a db.put completes (ok) or fails; the callback of the debounce timer that
\* awaited it, if any, resumes
WriteDone(i, ok) ==
  /\ i \in DOMAIN writes
  /\ LET w == writes[i] IN
     /\ store' = IF ok THEN [store EXCEPT ![w.docId] = Some(w.data)] ELSE store
     /\ writes' = RemoveAt(writes, i)
     /\ saveDebounceTimers' = AfterSave(w)
     /\ timers' = SettledTimer(timers, w, ok)
     /\ event' = Ev(IF ok THEN "put-done" ELSE "put-failed", None, w.docId)
     /\ emitted' = IF ok THEN <<>> ELSE <<Msg(Console, "error", w.docId, None, {})>>
  /\ UNCHANGED <<documents, awareness, clients, docState, nextDoc, loading, graceTimers,
                 sockStatus, sockDocId, rooms, listeners>>
  /\ UNCHANGED history

\* forceSave(docId): the recorded timer is cleared, the document is saved and
\* the save awaited; nothing is done when no document is registered
ForceSave(d) ==
  /\ event' = Ev("force-save", None, d)
  /\ emitted' = <<>>
  /\ IF documents[d] # None
     THEN /\ Len(writes) < MaxWrites
          /\ timers' = ClearTimeout(timers, saveDebounceTimers[d])
          /\ saveDebounceTimers' = [saveDebounceTimers EXCEPT ![d] = None]
          /\ writes' = Append(writes, SaveDocument(d, documents[d], "force", None))
     ELSE UNCHANGED <<timers, saveDebounceTimers, writes>>
  /\ UNCHANGED <<documents, awareness, clients, docState, nextDoc, loading, graceTimers,
                 store, sockStatus, sockDocId, rooms, listeners, history>>

\* ---- disconnect and cleanup ----

\* this.clients.get(docId)?.size === 0 on the clients map cl
NoClients(cl, d) == cl[d] # Absent /\ The(cl[d]) = {}

\* faulty variant of StillNoClients: the callback cleans up without the re-check
StillNoClients_NoRecheck(d) == TRUE

\* the re-check of the cleanup timeout's callback
StillNoClients(d) == NoClients(clients, d)

Disconnect(s) ==
  /\ sockStatus[s] = "connected"
  /\ sockStatus' = [sockStatus EXCEPT ![s] = "disconnected"]
  /\ rooms' = [rooms EXCEPT ![s] = {}]
  /\ event' = Ev("disconnect", s, sockDocId[s])
  /\ LET d == sockDocId[s] IN
     IF d = NoDocId
     THEN /\ emitted' = <<>>
          /\ UNCHANGED <<clients, graceTimers>>
     ELSE LET cl == IF clients[d] # Absent
                    THEN [clients EXCEPT ![d] = Some(The(@) \ {s})]
                    ELSE clients
          IN /\ clients' = cl
             /\ emitted' = Broadcast(rooms', s, "user-left", d, {})
             /\ IF NoClients(cl, d)
                THEN /\ Len(graceTimers) < MaxGrace
                     /\ graceTimers' = Append(graceTimers, [docId |-> d, rejoined |-> FALSE])
                ELSE UNCHANGED graceTimers
  /\ UNCHANGED <<documents, awareness, saveDebounceTimers, docState, nextDoc, loading,
                 timers, writes, store, sockDocId, listeners>>
  /\ UNCHANGED history

\* the 60 s cleanup timeout fires; timeouts of equal delay fire in the order
\* they were armed
CleanupFire ==
  /\ graceTimers # <<>>
  /\ graceTimers' = Tail(graceTimers)
  /\ event' = Ev("cleanup-timer", None, Head(graceTimers).docId)
  /\ emitted' = <<>>
  /\ LET d == Head(graceTimers).docId IN
     IF StillNoClients(d)
     THEN /\ IF documents[d] # None
             THEN /\ Len(writes) < MaxWrites
                  /\ writes' = Append(writes, SaveDocument(d, documents[d], "cleanup", None))
             ELSE UNCHANGED writes
          /\ documents' = [documents EXCEPT ![d] = None]
          /\ awareness' = [awareness EXCEPT ![d] = None]
          /\ clients' = [clients EXCEPT ![d] = Absent]
          /\ timers' = ClearTimeout(timers, saveDebounceTimers[d])
          /\ saveDebounceTimers' = [saveDebounceTimers EXCEPT ![d] = None]
     ELSE UNCHANGED <<documents, awareness, clients, timers, saveDebounceTimers, writes>>
  /\ UNCHANGED <<docState, nextDoc, loading, store, sockStatus, sockDocId, rooms, listeners>>
  /\ UNCHANGED history

\* ---- join-doc validation ----

\* a field that is undefined or empty in the join-doc payload
Missing == ""

\* the join-doc payloads: null (Absent), or an object whose fields may be missing
JoinData ==
  {Absent} \cup
  {Some([docId |-> d, username |-> n, color |-> c]) :
     d \in DocIds \cup {Missing}, n \in {"ann", Missing}, c \in {"red", Missing}}

\* faulty variant of ValidJoin: the color is not checked
ValidJoin_NoColor(o) ==
  o # Absent /\ The(o).docId # Missing /\ The(o).username # Missing

\* the negation of (!data || !data.docId || !data.username || !data.color)
ValidJoin(o) ==
  o # Absent /\ The(o).docId # Missing /\ The(o).username # Missing
             /\ The(o).color # Missing

\* the join-doc handler on payload o: invalid data is logged and the handler
\* returns, valid data is joined
JoinRequest(s, o) ==
  IF ValidJoin(o)
  THEN JoinDoc(s, The(o).docId)
  ELSE /\ sockStatus[s] = "connected"
       /\ event' = Ev("join-doc-invalid", s, NoDocId)
       /\ emitted' = <<Msg(Console, "error", NoDocId, s, {})>>
       /\ UNCHANGED <<documents, awareness, clients, saveDebounceTimers, docState,
                      nextDoc, loading, timers, graceTimers, writes, store,
                      sockStatus, sockDocId, rooms, listeners, history>>

\* ---- doc-update with its history ----

OrderUpdates == 1..MaxOrderUpdates

\* the doc-update messages of out addressed to socket r, as inbox entries:
\* the j-th of them was emitted by the j-th handler that ran, whose
\* application of the update is entry n + j of the log
RECURSIVE InboxEntries(_, _, _, _)
InboxEntries(out, r, d, n) ==
  IF out = <<>> THEN <<>>
  ELSE IF Head(out).to = r
       THEN <<[docId |-> d, data |-> Head(out).data, at |-> n + 1]>>
            \o InboxEntries(Tail(out), r, d, n + 1)
       ELSE InboxEntries(Tail(out), r, d, n)

\* the handlers of the socket that run on a message for docId d
HandlersRun(s, d) == SelectSeq(listeners[s], LAMBDA l : l.docId = d)

\* the doc-update turn, recorded: every handler that ran applied u to the
\* document of its closure, which is or is not the one registered for the
\* room; the connection of each receiver delivers what was emitted in the
\* order of emission
DocUpdateLogged(s, d, u) ==
  /\ DocUpdateTurn(s, d, u)
  /\ LET hs == IF ApplyThrows(u) THEN <<>> ELSE HandlersRun(s, d)
     IN /\ Len(applyLog[d]) + Len(hs) <= MaxLog
        /\ applyLog' = [applyLog EXCEPT ![d] = @ \o
              [j \in 1..Len(hs) |->
                 [update |-> u, doc |-> hs[j].doc, room |-> hs[j].doc = documents[d]]]]
        /\ inbox' = [r \in Sockets |->
                       inbox[r] \o InboxEntries(emitted', r, d, Len(applyLog[d]))]
  /\ UNCHANGED <<client, channel, outbox>>

\* ---- sync-step2 ----

\* Y.encodeStateAsUpdate(doc, stateVector): the updates of the document that
\* the state vector does not cover
EncodeStateAsUpdate(state, sv) == state \ sv

\* every sync-step2 handler registered on the socket runs, in registration
\* order, on a message {docId: d, data: sv}
RECURSIVE HandleSyncStep2(_, _, _, _)
HandleSyncStep2(ls, s, d, sv) ==
  IF ls = <<>> THEN <<>>
  ELSE (IF Head(ls).docId = d
        THEN Unicast(s, "sync-update", d, EncodeStateAsUpdate(docState[Head(ls).doc], sv))
        ELSE <<>>)
       \o HandleSyncStep2(Tail(ls), s, d, sv)

SyncStep2(s, d, sv) ==
  /\ sockStatus[s] = "connected"
  /\ \E i \in DOMAIN listeners[s] : listeners[s][i].docId = d
  /\ emitted' = HandleSyncStep2(listeners[s], s, d, sv)
  /\ event' = Ev("sync-step2", s, d)
  /\ UNCHANGED <<documents, awareness, clients, saveDebounceTimers, docState, nextDoc,
                 loading, timers, graceTimers, writes, store, sockStatus, sockDocId,
                 rooms, listeners, history>>

\* ---- awareness-update ----

\* the data of an awareness-update message: an array of [clientId, state]
\* entries, or something that is not an array
PresencePayloads ==
  {[array |-> TRUE, entries |-> {[replica |-> ReplicaOf(x), fields |-> f]}] :
     x \in Sockets, f \in CursorStates \cup {NullState}}
  \cup {[array |-> FALSE, entries |-> {}]}

\* socket.to(docId).emit('awareness-update', {docId, data: data.data})
Relay(rm, s, d, entries) ==
  LET out == Broadcast(rm, s, "awareness-update", d, {})
  IN [i \in DOMAIN out |-> PresenceMsg(out[i], entries)]

\* every awareness-update handler registered on the socket runs, in
\* registration order, on a message {docId: d, data: p}
RECURSIVE HandleAwarenessUpdate(_, _, _, _)
HandleAwarenessUpdate(ls, s, d, p) ==
  IF ls = <<>> THEN <<>>
  ELSE (IF Head(ls).docId = d /\ p.array THEN Relay(rooms, s, d, p.entries) ELSE <<>>)
       \o HandleAwarenessUpdate(Tail(ls), s, d, p)

AwarenessUpdate(s, d, p) ==
  /\ sockStatus[s] = "connected"
  /\ \E i \in DOMAIN listeners[s] : listeners[s][i].docId = d
  /\ emitted' = HandleAwarenessUpdate(listeners[s], s, d, p)
  /\ event' = Ev("awareness-update", s, d)
  /\ UNCHANGED <<documents, awareness, clients, saveDebounceTimers, docState, nextDoc,
                 loading, timers, graceTimers, writes, store, sockStatus, sockDocId,
                 rooms, listeners, history>>

\* ---- the client (frontend SocketProvider) ----

\* the docId every SocketProvider is constructed with
ClientDocId == "A"

\* the one edit the user behind socket s makes; the stored snapshot holds
\* Updates, so the edits of the clients are other updates
EditOf(s) == MaxUpdates + s

LocalOrigin == "local"
\* REMOTE_UPDATE_ORIGIN
RemoteOrigin == "remote"

\* a message emitted by a client
UpMsg(kind, data) == [kind |-> kind, docId |-> ClientDocId, data |-> data]

\* faulty variant of OnUpdate: the origin of the update is not looked at
OnUpdate_Echo(c, new, origin) ==
  IF new = {} THEN <<>>
  ELSE IF c.phase = "online" THEN <<UpMsg("doc-update", new)>> ELSE <<>>

\* ydoc.on("update"): Yjs fires the event when a transaction changed the
\* document (new is what it added); updates of remote origin are skipped,
\* local ones are emitted while connected and dropped otherwise
OnUpdate(c, new, origin) ==
  IF new = {} THEN <<>>
  ELSE IF origin = RemoteOrigin THEN <<>>
  ELSE IF c.phase = "online" THEN <<UpMsg("doc-update", new)>> ELSE <<>>

\* the events of the model that are turns of a client
ClientOps == {"client-connect", "local-edit", "recv-sync-step1", "recv-sync-update",
              "recv-doc-update", "recv-other"}

\* the last turn was a turn of the server whose messages are not yet in the
\* channels
NeedsFlush == event.op \notin ClientOps \cup {"init", "flushed"}

\* the server variables, which no client turn changes
serverSide == <<documents, awareness, clients, saveDebounceTimers, docState, nextDoc,
                loading, timers, graceTimers, writes, store, sockStatus, sockDocId,
                rooms, listeners, applyLog, inbox>>

\* socket.on("connect"): the provider emits join-doc
ClientConnect(s) ==
  /\ ~NeedsFlush
  /\ client[s].phase = "offline"
  /\ sockStatus[s] = "connected"
  /\ client' = [client EXCEPT ![s].phase = "online"]
  /\ outbox' = [outbox EXCEPT ![s] = Append(@, UpMsg("join-doc", {}))]
  /\ event' = Ev("client-connect", s, ClientDocId)
  /\ emitted' = <<>>
  /\ UNCHANGED <<serverSide, channel>>

\* the user edits the document: a transaction of local origin
LocalEdit(s) ==
  /\ ~NeedsFlush
  /\ EditOf(s) \notin client[s].replica
  /\ client' = [client EXCEPT ![s].replica = @ \cup {EditOf(s)}]
  /\ outbox' = [outbox EXCEPT ![s] = @ \o OnUpdate(client[s], {EditOf(s)}, LocalOrigin)]
  /\ event' = Ev("local-edit", s, ClientDocId)
  /\ emitted' = <<>>
  /\ UNCHANGED <<serverSide, channel>>

\* the provider's handler of the first message of its channel: sync-step1
\* is answered with the state vector of the replica, sync-update and
\* doc-update are applied with REMOTE_UPDATE_ORIGIN, the other kinds change
\* nothing in the replica
ClientReceive(s) ==
  /\ ~NeedsFlush
  /\ channel[s] # <<>>
  /\ channel' = [channel EXCEPT ![s] = Tail(@)]
  /\ emitted' = <<>>
  /\ LET m == Head(channel[s])
         new == m.data \ client[s].replica
     IN IF m.docId # ClientDocId \/ m.kind \notin {"sync-step1", "sync-update", "doc-update"}
        THEN /\ event' = Ev("recv-other", s, m.docId)
             /\ UNCHANGED <<client, outbox>>
        ELSE IF m.kind = "sync-step1"
        THEN /\ event' = Ev("recv-sync-step1", s, m.docId)
             /\ outbox' = [outbox EXCEPT
                             ![s] = Append(@, UpMsg("sync-step2", client[s].replica))]
             /\ UNCHANGED client
        ELSE /\ event' = Ev("recv-" \o m.kind, s, m.docId)
             /\ client' = [client EXCEPT
                             ![s].replica = @ \cup m.data,
                             ![s].synced = @ \/ m.kind = "sync-update"]
             /\ outbox' = [outbox EXCEPT ![s] = @ \o OnUpdate(client[s], new, RemoteOrigin)]
  /\ UNCHANGED serverSide

\* the server dispatches the first message of a client to its handlers
ServeJoin(s) ==
  /\ ~NeedsFlush
  /\ outbox[s] # <<>>
  /\ Head(outbox[s]).kind = "join-doc"
  /\ JoinDoc(s, Head(outbox[s]).docId)

ServeDocUpdate(s) ==
  /\ ~NeedsFlush
  /\ outbox[s] # <<>>
  /\ Head(outbox[s]).kind = "doc-update"
  /\ \E u \in Head(outbox[s]).data :
       /\ Head(outbox[s]).data = {u}
       /\ DocUpdate(s, Head(outbox[s]).docId, u)

ServeSyncStep2(s) ==
  /\ ~NeedsFlush
  /\ outbox[s] # <<>>
  /\ Head(outbox[s]).kind = "sync-step2"
  /\ SyncStep2(s, Head(outbox[s]).docId, Head(outbox[s]).data)

\* a doc-update or sync-step2 that arrives while the socket has no handler
\* for it (the join has not completed): socket.io dispatches it to nobody
ServeUnhandled(s) ==
  /\ ~NeedsFlush
  /\ outbox[s] # <<>>
  /\ sockStatus[s] = "connected"
  /\ Head(outbox[s]).kind \in {"doc-update", "sync-step2"}
  /\ \A i \in DOMAIN listeners[s] : listeners[s][i].docId # Head(outbox[s]).docId
  /\ event' = Ev("unhandled", s, Head(outbox[s]).docId)
  /\ emitted' = <<>>
  /\ UNCHANGED <<documents, awareness, clients, saveDebounceTimers, docState, nextDoc,
                 loading, timers, graceTimers, writes, store, sockStatus, sockDocId,
                 rooms, listeners, history>>

ServeLoad(l) == ~NeedsFlush /\ LoadComplete(l)

\* the messages of seq addressed to socket s, in order
AddressedTo(seq, s) == LET To(m) == m.to = s IN SelectSeq(seq, To)

\* the end of a server turn: the messages it emitted are in the channels of
\* their sockets, and the message it dispatched has left the outbox
Flush ==
  /\ NeedsFlush
  /\ channel' = [s \in Sockets |-> channel[s] \o AddressedTo(emitted, s)]
  /\ outbox' = IF event.op \in {"join-doc", "doc-update", "sync-step2", "unhandled"}
               THEN [outbox EXCEPT ![event.sock] = Tail(@)]
               ELSE outbox
  /\ emitted' = <<>>
  /\ event' = Ev("flushed", None, NoDocId)
  /\ UNCHANGED <<serverSide, client>>

\* ---- participants and handlers ----

\* the participant set of a docId (empty when the clients map has no entry)
Participants(d) == IF clients[d] = Absent THEN {} ELSE The(clients[d])

\* the docIds whose participant set holds the socket
RoomsOf(s) == {d \in DocIds : s \in Participants(d)}

\* the positions of the socket's handlers registered for docId d
HandlersFor(s, d) == {i \in DOMAIN listeners[s] : listeners[s][i].docId = d}

\* the doc-update messages the last turn delivered to socket r
Delivered(r, kind) == {i \in DOMAIN emitted : emitted[i].to = r /\ emitted[i].kind = kind}

ArmedTimers(d) ==
  {t \in TimerIds : timers[t] # Absent /\ The(timers[t]).docId = d
                    /\ The(timers[t]).state = "armed"}

GraceTimersOf(d) == {i \in DOMAIN graceTimers : graceTimers[i].docId = d}

\* C1: every connected participant of a docId has all its handlers for that
\* docId bound to the document handle registered for the docId, so that one
\* handle is in use per docId.
C1_OneHandlePerDoc ==
  \A d \in DocIds : \A s \in Participants(d) :
    sockStatus[s] = "connected" =>
      \A i \in HandlersFor(s, d) : listeners[s][i].doc = documents[d]

\* C2: each connection is in the participant set of at most one room.
C2_AtMostOneRoom == \A s \in Sockets : Cardinality(RoomsOf(s)) <= 1

\* C3: a connected participant has exactly one handler per message kind for
\* its docId, and a doc-update it sends reaches every other connected
\* participant of the room exactly once.
C3_OneHandlerPerKind ==
  /\ \A d \in DocIds : \A s \in Participants(d) :
       sockStatus[s] = "connected" => Cardinality(HandlersFor(s, d)) = 1
  /\ event.op = "doc-update" =>
       \A r \in Participants(event.docId) \ {event.sock} :
         sockStatus[r] = "connected" => Cardinality(Delivered(r, "doc-update")) = 1

\* the turn was a join of a docId on first access: the join that loaded the
\* snapshot resumed, or a join arrived while that load is still in flight
FirstAccessJoin(d) ==
  \/ event.op = "load-done" /\ event.docId = d
  \/ event.op = "join-doc" /\ event.docId = d
     /\ \E l \in loading : l.docId = d /\ l.doc = documents[d]

\* C4: the step-1 state vector sent by a join on first access of a docId
\* covers the whole stored snapshot when the store holds one.
C4_Step1CoversSnapshot ==
  \A i \in DOMAIN emitted :
    (emitted[i].kind = "sync-step1" /\ FirstAccessJoin(emitted[i].docId)
       /\ store[emitted[i].docId] # Absent)
    => The(store[emitted[i].docId]) \subseteq emitted[i].data

\* C5: a join to a docId with a registered document reads nothing from the
\* store, leaves the registered handle and every document's content as they
\* are, and sends the joiner the state vector of that same document.
C5_ResidentJoinReusesDoc ==
  [][\A s \in Sockets, d \in DocIds :
       (event' = Ev("join-doc", s, d) /\ documents[d] # None) =>
         /\ documents' = documents
         /\ loading' = loading
         /\ docState' = docState
         /\ nextDoc' = nextDoc
         /\ store' = store
         /\ \E i \in DOMAIN emitted' :
              emitted'[i] = Msg(s, "sync-step1", d, Console, docState[documents[d]])]_vars

\* C5 witness: a socket joined an empty room that waits for its cleanup
\* timeout and was sent a state vector holding an update that is not stored.
C5_Witness ==
  /\ event.op = "join-doc"
  /\ store[event.docId] = Absent /\ writes = <<>> /\ loading = {}
  /\ \E i \in GraceTimersOf(event.docId) : graceTimers[i].rejoined
  /\ Participants(event.docId) = {event.sock}
  /\ \E i \in DOMAIN emitted :
       /\ emitted[i].kind = "sync-step1" /\ emitted[i].to = event.sock
       /\ emitted[i].data # {}

\* C6: a room is removed from the registry only by a cleanup timeout armed
\* by the departure after which the room stayed empty: no participant was
\* added to the room while that timeout was pending.
C6_EvictedAfterFullGrace ==
  [][\A d \in DocIds :
       (clients[d] # Absent /\ clients'[d] = Absent) => ~Head(graceTimers).rejoined]_vars

\* C7: the store write of an eviction completes before the room is removed
\* from the registry: while the write is in flight its document is still the
\* one registered for the docId.
C7_SaveBeforeEvict ==
  \A i \in DOMAIN writes :
    writes[i].by = "cleanup" => documents[writes[i].docId] = writes[i].doc

\* C8: a resident room with a participant set has a cleanup timeout pending
\* if and only if that set is empty.
C8_TimerIffEmpty ==
  \A d \in DocIds :
    (documents[d] # None /\ clients[d] # Absent) =>
      ((GraceTimersOf(d) # {}) <=> (The(clients[d]) = {}))

\* C9: a room leaves the registry only with an empty participant set, and a
\* cleanup timeout that fires while the room has a participant changes
\* neither the registry, the timers, the documents nor the store.
C9_NoEvictionWithParticipants ==
  [][\A d \in DocIds :
       /\ (documents[d] # None /\ documents'[d] = None) => NoClients(clients, d)
       /\ (clients[d] # Absent /\ clients'[d] = Absent) => The(clients[d]) = {}
       /\ (event' = Ev("cleanup-timer", None, d) /\ graceTimers' = Tail(graceTimers)
           /\ Participants(d) # {})
          => UNCHANGED <<documents, awareness, clients, saveDebounceTimers, timers,
                         writes, store, docState>>]_vars

\* C9 witness: a cleanup timeout fired for a resident room that has a
\* participant, and the room is still registered.
C9_Witness ==
  /\ event.op = "cleanup-timer"
  /\ documents[event.docId] # None
  /\ awareness[event.docId] # None
  /\ Participants(event.docId) # {}

\* C10: after a call of the debounced save for a room exactly one debounce
\* timer is armed for its docId, so that a burst of calls ends in one write.
C10_OneWritePerBurst ==
  event.op = "doc-update" => Cardinality(ArmedTimers(event.docId)) = 1

\* C11: at most one debounce timer is pending per docId, and the pending
\* timer is the one recorded in the timer table.
C11_OneRecordedTimer ==
  \A d \in DocIds :
    /\ Cardinality(ArmedTimers(d)) <= 1
    /\ \A t \in ArmedTimers(d) : saveDebounceTimers[d] = t

\* nothing is pending: no load, no store write, no cleanup timeout and no
\* debounce timer
Quiescent ==
  /\ loading = {}
  /\ writes = <<>>
  /\ graceTimers = <<>>
  /\ \A t \in TimerIds : timers[t] = Absent

\* the updates that doc-update handlers applied to the document registered
\* for docId d
AppliedToRoom(d) ==
  {applyLog[d][i].update : i \in {j \in DOMAIN applyLog[d] : applyLog[d][j].room}}

\* C12: once the updates have stopped and nothing is pending any more (no
\* store write failed), the snapshot stored for a docId contains every
\* update that was applied to the room's document, resident or evicted.
C12_QuiescentStoreHoldsApplied ==
  Quiescent =>
    \A d \in DocIds :
      AppliedToRoom(d) # {} =>
        (store[d] # Absent /\ AppliedToRoom(d) \subseteq The(store[d]))

\* C13: a doc-update sent by a participant of a room is applied to the
\* document registered for the room, reaches every other connected
\* participant, reaches nobody else, and leaves a debounce timer armed.
C13_UpdateToParticipantsOnly ==
  (event.op = "doc-update" /\ event.sock \in Participants(event.docId)) =>
    /\ \A i \in DOMAIN emitted :
         /\ emitted[i].to \in Participants(event.docId) \ {event.sock}
         /\ documents[event.docId] # None
         /\ emitted[i].data \subseteq docState[documents[event.docId]]
    /\ \A r \in Participants(event.docId) \ {event.sock} :
         sockStatus[r] = "connected" => Delivered(r, "doc-update") # {}
    /\ ArmedTimers(event.docId) # {}

\* C16: a disconnected connection is in no participant set.
C16_ClosedNotParticipant ==
  \A s \in Sockets : sockStatus[s] = "disconnected" => RoomsOf(s) = {}

\* C14: each socket receives the doc-update broadcasts of a room in the
\* order in which the server applied them: every delivered message carries
\* the update of the log entry it was emitted for, and later deliveries
\* belong to later log entries.
C14_ReceivedInApplyOrder ==
  \A r \in Sockets : \A i \in DOMAIN inbox[r] :
    LET m == inbox[r][i] IN
    /\ m.at \in DOMAIN applyLog[m.docId]
    /\ m.data = {applyLog[m.docId][m.at].update}
    /\ \A j \in DOMAIN inbox[r] :
         (i < j /\ inbox[r][j].docId = m.docId) => m.at < inbox[r][j].at

\* a connected participant has received two different updates that were
\* applied one right after the other, and the log is full
C14_Witness ==
  /\ event.op = "doc-update"
  /\ \E r \in Sockets :
       /\ sockStatus[r] = "connected"
       /\ r \in Participants(event.docId)
       /\ Len(inbox[r]) >= 2
       /\ inbox[r][1].data # inbox[r][2].data
       /\ inbox[r][1].at + 1 = inbox[r][2].at
       /\ Len(applyLog[inbox[r][1].docId]) = MaxLog

\* C15: a sync-step2 message of a participant produces exactly one
\* sync-update message, to the sender only, holding the updates of the
\* room's document that the state vector does not cover, and changes
\* neither the document, the participants, the presence table nor the timers.
C15_OneMissingUpdateReply ==
  [][\A s \in Sockets, d \in UpdateDocIds, sv \in SUBSET Updates :
       (s \in Participants(d) /\ documents[d] # None /\ SyncStep2(s, d, sv)) =>
         /\ emitted' = <<Msg(s, "sync-update", d, Console,
                             docState[documents[d]] \ sv)>>
         /\ UNCHANGED <<documents, docState, clients, awareness,
                        saveDebounceTimers, timers>>]_vars

\* C17: when a participant whose presence entry was relayed to another
\* participant disconnects, that participant receives a presence removal
\* naming the departed replica, and no entry of another replica leaves the
\* presence table.
C17_DepartureRemovesPresence ==
  [][\A s \in Sockets, r \in Sockets, d \in UpdateDocIds :
       \A i \in DOMAIN emitted : \A e \in emitted[i].entries :
         (/\ emitted[i].kind = "awareness-update"
          /\ emitted[i].from = s /\ emitted[i].to = r /\ emitted[i].docId = d
          /\ e.fields # NullState
          /\ sockDocId[s] = d /\ s \in Participants(d)
          /\ r \in Participants(d) /\ sockStatus[r] = "connected"
          /\ Disconnect(s)) =>
           /\ \E j \in DOMAIN emitted' :
                /\ emitted'[j].to = r
                /\ emitted'[j].kind = "awareness-update"
                /\ emitted'[j].entries = {[replica |-> e.replica, fields |-> NullState]}
           /\ {x \in GetStates(awareness, d) : x.replica # e.replica}
                \subseteq GetStates(awareness', d)]_vars

\* C18: after an accepted awareness-update naming replica r with fields f
\* the presence table of the room maps r to f (no entry for r when f is
\* null), and a connection that completes a join receives the entries of
\* the table.
C18_PresenceTableLastWriteWins ==
  [][/\ \A s \in Sockets, d \in UpdateDocIds, p \in PresencePayloads :
          (p.array /\ s \in Participants(d) /\ AwarenessUpdate(s, d, p)) =>
            \A e \in p.entries :
              IF e.fields = NullState
              THEN \A x \in GetStates(awareness', d) : x.replica # e.replica
              ELSE e \in GetStates(awareness', d)
     /\ \A s \in Sockets, d \in DocIds :
          (/\ event' \in {Ev("join-doc", s, d), Ev("load-done", s, d)}
           /\ sockDocId'[s] = d /\ sockStatus[s] = "connected"
           /\ GetStates(awareness', d) # {}) =>
            \E j \in DOMAIN emitted' :
              /\ emitted'[j].to = s
              /\ emitted'[j].kind = "awareness-update"
              /\ emitted'[j].entries = GetStates(awareness', d)]_vars

\* C19: an awareness-update sent by a participant of a room is delivered to
\* every other connected participant of the room, not to the sender and not
\* to a connection outside the participant set.
C19_PresenceToParticipantsOnly ==
  [][\A s \in Sockets, d \in UpdateDocIds, p \in PresencePayloads :
       (p.array /\ s \in Participants(d) /\ AwarenessUpdate(s, d, p)) =>
         /\ \A i \in DOMAIN emitted' :
              emitted'[i].to \in Participants(d) \ {s}
         /\ \A r \in Participants(d) \ {s} :
              sockStatus[r] = "connected" =>
                \E i \in DOMAIN emitted' :
                  emitted'[i].to = r /\ emitted'[i].entries = p.entries]_vars

\* docId, username or color is missing from the join request
JoinFieldMissing(o) ==
  \/ o = Absent
  \/ \E f \in {"docId", "username", "color"} : The(o)[f] = Missing

\* C20: a join request with a missing field changes neither the registry,
\* nor the connection's docId, rooms and handlers, sends no message to any
\* connection and leaves the connection open.
C20_InvalidJoinChangesNothing ==
  [][\A s \in Sockets, o \in JoinData :
       (JoinFieldMissing(o) /\ JoinRequest(s, o)) =>
         /\ UNCHANGED <<documents, awareness, clients, saveDebounceTimers, docState,
                        nextDoc, loading, timers, graceTimers, writes, store,
                        sockStatus, sockDocId, rooms, listeners>>
         /\ \A i \in DOMAIN emitted' : emitted'[i].to = Console
         /\ sockStatus'[s] = "connected"]_vars

\* an invalid join request was handled on a connection that is a participant
\* of a room with a pending save timer while another of its joins is loading
C20_Witness ==
  /\ event.op = "join-doc-invalid"
  /\ sockDocId[event.sock] # NoDocId
  /\ listeners[event.sock] # <<>>
  /\ \E l \in loading : l.sock = event.sock
  /\ ArmedTimers(sockDocId[event.sock]) # {}
  /\ \A i \in DOMAIN emitted : emitted[i].to = Console

\* C21: a doc-update whose payload the CRDT rejects changes no document,
\* is sent to no connection, arms no save and leaves the sender connected,
\* a participant and with its handlers; a valid update that the sender
\* sends next is applied by its handlers, broadcast and arms the save.
C21_RejectedUpdateChangesNothing ==
  [][\A s \in Sockets, d \in UpdateDocIds :
       /\ DocUpdate(s, d, Corrupt) =>
            /\ UNCHANGED <<documents, docState, clients, awareness, timers,
                           saveDebounceTimers, writes, store, listeners, rooms,
                           sockStatus, sockDocId>>
            /\ \A i \in DOMAIN emitted' : emitted'[i].to = Console
       /\ \A u \in Updates :
            (/\ \E i \in DOMAIN emitted : emitted[i] = Msg(Console, "apply-error", d, s, {})
             /\ DocUpdate(s, d, u)) =>
              /\ \A i \in HandlersFor(s, d) : u \in docState'[listeners[s][i].doc]
              /\ \A r \in Sockets \ {s} :
                   d \in rooms[r] =>
                     \E i \in DOMAIN emitted' :
                       emitted'[i].to = r /\ emitted'[i].data = {u}
              /\ \E t \in TimerIds :
                   /\ timers'[t] # Absent
                   /\ The(timers'[t]).docId = d
                   /\ The(timers'[t]).state = "armed"]_vars

\* the update of a connected participant was rejected while another
\* participant is connected: nothing was delivered, the room's document is
\* still empty and no save is armed
C21_Witness ==
  /\ event.op = "doc-update"
  /\ \E i \in DOMAIN emitted : emitted[i].kind = "apply-error"
  /\ event.sock \in Participants(event.docId)
  /\ sockStatus[event.sock] = "connected"
  /\ \E r \in Participants(event.docId) \ {event.sock} : sockStatus[r] = "connected"
  /\ documents[event.docId] # None
  /\ docState[documents[event.docId]] = {}
  /\ ArmedTimers(event.docId) = {}

\* the participants of docId d in the next state
ParticipantsNext(d) == IF clients'[d] = Absent THEN {} ELSE The(clients'[d])

\* C22: when the load of a join fails the connection is told so, does not
\* become a participant and is sent no step 1, and the next turn of another
\* connection delivers it nothing of that room; a load that finds no
\* snapshot lets the join proceed.
C22_FailedLoadAbortsJoin ==
  [][\A s \in Sockets, d \in DocIds :
       /\ (event' = Ev("load-failed", s, d) /\ s \notin Participants(d)) =>
            /\ s \notin ParticipantsNext(d)
            /\ \A i \in DOMAIN emitted' :
                 ~(emitted'[i].to = s /\ emitted'[i].kind = "sync-step1")
            /\ \E i \in DOMAIN emitted' : emitted'[i].to = s
       /\ (/\ event = Ev("load-failed", s, d)
           /\ s \notin Participants(d)
           /\ event'.sock # s) =>
            \A i \in DOMAIN emitted' :
              ~(emitted'[i].to = s /\ emitted'[i].docId = d)
       /\ (event' = Ev("load-done", s, d) /\ store[d] = Absent) =>
            s \in ParticipantsNext(d)]_vars

\* the debounce timers of docId d that are pending or awaiting their save,
\* in the next state
TimersNext(d) == {t \in TimerIds : timers'[t] # Absent /\ The(timers'[t]).docId = d}

\* C23: a failed store write of a debounced save leaves documents,
\* participants and store as they are, ends the timer that started it, arms
\* no timer and starts no write: the timers and writes left are those that
\* were there before, less the failed ones.
C23_FailedSaveNotRetried ==
  [][\A i \in 1..MaxWrites :
       (WriteDone(i, FALSE) /\ writes[i].by = "debounce") =>
         LET w == writes[i] IN
         /\ UNCHANGED <<documents, docState, clients, awareness, store, sockStatus,
                        listeners, graceTimers>>
         /\ TimersNext(w.docId) =
              {t \in TimerIds : timers[t] # Absent /\ The(timers[t]).docId = w.docId}
                \ {w.timer}
         /\ \A t \in TimersNext(w.docId) : timers'[t] = timers[t]
         /\ Len(writes') = Len(writes) - 1
         /\ \A j \in DOMAIN writes' : \E k \in DOMAIN writes : k # i /\ writes'[j] = writes[k]
         /\ \E j \in DOMAIN emitted' : emitted'[j].kind = "error"]_vars

\* the save of a resident room with a connected participant has failed: the
\* room's document holds an update that the store lacks, and neither a timer
\* nor a write is pending for it
C23_Witness ==
  /\ event.op = "put-failed"
  /\ documents[event.docId] # None
  /\ \E s \in Participants(event.docId) : sockStatus[s] = "connected"
  /\ store[event.docId] = Absent
  /\ docState[documents[event.docId]] # {}
  /\ \A t \in TimerIds : timers[t] = Absent
  /\ writes = <<>>
  /\ saveDebounceTimers[event.docId] = None

\* a Y.Doc that was constructed and is registered for no docId any more:
\* the document of an evicted room
Discarded(h) == h <= nextDoc /\ \A d \in DocIds : documents[d] # h

\* C24: nothing acts on the document of an evicted room: no debounce timer
\* for it is pending, no doc-update is applied to it and no debounced save
\* is started from it.
C24_NothingActsOnDiscarded ==
  [][\A h \in Handles :
       Discarded(h) =>
         /\ \A t \in TimerIds :
              ~(/\ timers[t] # Absent
                /\ The(timers[t]).doc = h
                /\ The(timers[t]).state = "armed")
         /\ event'.op = "doc-update" => docState'[h] = docState[h]
         /\ \A j \in DOMAIN writes' :
              (writes'[j].doc = h /\ writes'[j].by = "debounce") =>
                \E k \in DOMAIN writes : writes[k] = writes'[j]]_vars

\* C25: forceSave of a resident room leaves no debounce timer of the room
\* pending and starts one store write with the current state of the room's
\* document; forceSave of a docId without a document writes and changes
\* nothing.
C25_ForceSaveCancelsAndWrites ==
  [][\A d \in DocIds :
       ForceSave(d) =>
         IF documents[d] # None
         THEN /\ \A t \in TimersNext(d) : The(timers'[t]).state # "armed"
              /\ writes' = Append(writes,
                             [docId |-> d, doc |-> documents[d],
                              data |-> docState[documents[d]],
                              by |-> "force", timer |-> None])
         ELSE UNCHANGED <<documents, docState, clients, awareness, timers,
                          saveDebounceTimers, writes, store>>]_vars

\* C26: a turn for docId x leaves the document, presence table, timers,
\* timer table entry and snapshot of every other docId y as they are and,
\* unless it is a join, delivers nothing to a connection that is a
\* participant of y and not of x; a join changes the participant set of y
\* at most by removing the joining connection.
C26_RoomsIndependent ==
  [][\A x \in DocIds, y \in DocIds :
       (x # y /\ event'.docId = x) =>
         /\ documents'[y] = documents[y]
         /\ awareness'[y] = awareness[y]
         /\ saveDebounceTimers'[y] = saveDebounceTimers[y]
         /\ store'[y] = store[y]
         /\ documents[y] # None => docState'[documents[y]] = docState[documents[y]]
         /\ \A t \in TimerIds :
              \/ timers'[t] = timers[t]
              \/ /\ timers[t] # Absent => The(timers[t]).docId # y
                 /\ timers'[t] # Absent => The(timers'[t]).docId # y
         /\ \/ clients'[y] = clients[y]
            \/ /\ event'.op = "join-doc"
               /\ clients[y] # Absent
               /\ clients'[y] = Some(The(clients[y]) \ {event'.sock})
         /\ event'.op \notin {"join-doc", "load-done"} =>
              \A i \in DOMAIN emitted' :
                ~(/\ emitted'[i].to \in Participants(y)
                  /\ emitted'[i].to \notin Participants(x))]_vars

\* C27: the turn in which a participant of docId a starts a join of another
\* docId b removes it from the participant set of a and leaves no entry of
\* its replica in the presence table of a, so that it is out of a when it
\* is registered in b.
C27_LeftBeforeJoined ==
  [][\A s \in Sockets, a \in DocIds, b \in DocIds :
       (a # b /\ s \in Participants(a) /\ event' = Ev("join-doc", s, b)) =>
         /\ s \notin ParticipantsNext(a)
         /\ \A e \in GetStates(awareness', a) : e.replica # ReplicaOf(s)]_vars

\* C28: the turn that completes the join of a connected socket has it in
\* the participant set and emits, in this order, the step 1 state vector
\* to it, the presence table to it, and the join announcement to other
\* connections only, among them every other connected participant.
C28_JoinMessageOrder ==
  [][\A s \in Sockets, d \in DocIds :
       (/\ \/ event' = Ev("join-doc", s, d) /\ documents[d] # None
           \/ event' = Ev("load-done", s, d)
        /\ sockStatus[s] = "connected") =>
         /\ s \in ParticipantsNext(d)
         /\ Len(emitted') >= 2
         /\ emitted'[1].to = s /\ emitted'[1].kind = "sync-step1"
         /\ emitted'[2].to = s /\ emitted'[2].kind = "awareness-update"
         /\ emitted'[2].entries = GetStates(awareness', d)
         /\ \A i \in 3..Len(emitted') :
              /\ emitted'[i].kind = "user-joined"
              /\ emitted'[i].to # s
              /\ emitted'[i].from = s
         /\ \A r \in ParticipantsNext(d) \ {s} :
              sockStatus[r] = "connected" =>
                \E i \in 3..Len(emitted') : emitted'[i].to = r]_vars

\* C29: with no state-vector reply ever sent, a document update from a
\* connected participant runs the handler of its join, which applies the
\* update and delivers it to every other connected participant; and a
\* connection leaves a participant set only in its own disconnect turn or
\* its own join-doc turn, never by a timer or another connection's turn.
C29_NoReplyNeeded ==
  [][/\ \A s \in Sockets, d \in DocIds, u \in Updates :
          (/\ s \in Participants(d)
           /\ sockStatus[s] = "connected"
           /\ DocUpdateLogged(s, d, u)) =>
            /\ HandlersFor(s, d) # {}
            /\ \A i \in HandlersFor(s, d) : u \in docState'[listeners[s][i].doc]
            /\ \A r \in Participants(d) \ {s} :
                 sockStatus[r] = "connected" =>
                   \E i \in DOMAIN emitted' :
                     /\ emitted'[i].to = r
                     /\ emitted'[i].kind = "doc-update"
                     /\ emitted'[i].data = {u}
     /\ \A s \in Sockets, d \in DocIds :
          (s \in Participants(d) /\ s \notin ParticipantsNext(d)) =>
            /\ event'.sock = s
            /\ event'.op \in {"disconnect", "join-doc"}]_vars

\* a connected participant has sent a document update that was applied to
\* the registered document and delivered to another connected participant
C29_Witness ==
  /\ event.op = "doc-update"
  /\ event.sock \in Participants(event.docId)
  /\ sockStatus[event.sock] = "connected"
  /\ documents[event.docId] # None
  /\ docState[documents[event.docId]] # {}
  /\ \E i \in DOMAIN emitted :
       /\ emitted[i].kind = "doc-update"
       /\ emitted[i].to \in Participants(event.docId) \ {event.sock}
       /\ sockStatus[emitted[i].to] = "connected"

\* C30: once nothing is pending any more (no load, no write, no timer), no
\* room is resident with a participant set that has become empty: every
\* room that was emptied has been evicted.
C30_EmptyRoomEvicted ==
  Quiescent => \A d \in DocIds : ~(documents[d] # None /\ NoClients(clients, d))

\* C31: a presence table or a participant set is registered for a docId
\* only while a document is registered for it, and the presence table was
\* created from the registered document.
C31_PresenceWithHandle ==
  \A d \in DocIds :
    /\ awareness[d] # None => (documents[d] # None /\ awareness[d] = documents[d])
    /\ clients[d] # Absent => documents[d] # None

\* C32: a doc-update, sync-step2 or awareness-update of a socket that is not
\* in the participant set of the docId it names changes no document, arms
\* no timer, starts no write and is delivered to no connection.
C32_OnlyParticipantsAct ==
  [][\A s \in Sockets, d \in DocIds :
       (/\ event'.op \in {"doc-update", "sync-step2", "awareness-update"}
        /\ event'.sock = s
        /\ event'.docId = d
        /\ s \notin Participants(d)) =>
         /\ docState' = docState
         /\ timers' = timers
         /\ writes' = writes
         /\ \A i \in DOMAIN emitted' : emitted'[i].to = Console]_vars

\* C33: a store write never loses an update: the snapshot it puts for a
\* docId contains every update of the snapshot it overwrites.
C33_SnapshotNeverRegresses ==
  [][\A d \in DocIds :
       (store[d] # Absent /\ store'[d] # store[d]) =>
         /\ store'[d] # Absent
         /\ The(store[d]) \subseteq The(store'[d])]_vars

\* nothing is in flight between the clients and the server
NothingInFlight ==
  /\ ~NeedsFlush
  /\ loading = {}
  /\ \A s \in Sockets : channel[s] = <<>> /\ outbox[s] = <<>>

\* C34: a participant that has applied the sync-update of its handshake
\* and every message sent to it holds every update of the document
\* registered for its room.
C34_NoHandshakeGap ==
  \A s \in Sockets :
    (/\ client[s].synced
     /\ ~NeedsFlush
     /\ channel[s] = <<>>
     /\ s \in Participants(ClientDocId)
     /\ documents[ClientDocId] # None) =>
      docState[documents[ClientDocId]] \subseteq client[s].replica

\* C35: once nothing is in flight, the document registered for the room
\* holds every update of the replica of each participant that completed
\* the handshake, the edits it made before connecting included.
C35_ClientEditsReachServer ==
  NothingInFlight =>
    \A s \in Sockets :
      (/\ client[s].synced
       /\ s \in Participants(ClientDocId)
       /\ documents[ClientDocId] # None) =>
        client[s].replica \subseteq docState[documents[ClientDocId]]

\* the doc-update messages of a sequence of client messages
DocUpdatesOf(seq) == LET IsUpdate(m) == m.kind = "doc-update" IN SelectSeq(seq, IsUpdate)

\* C36: receiving a message never makes a client emit a doc-update, and
\* every doc-update a client has emitted carries its own edit only.
C36_NoEcho ==
  [][\A s \in Sockets :
       /\ ClientReceive(s) => DocUpdatesOf(outbox'[s]) = DocUpdatesOf(outbox[s])
       /\ \A i \in DOMAIN outbox'[s] :
            outbox'[s][i].kind = "doc-update" => outbox'[s][i].data = {EditOf(s)}]_vars

\* a client has just applied a sync-update or doc-update that brought it an
\* update it did not have, made by someone else
C36_Witness ==
  /\ event.op \in {"recv-sync-update", "recv-doc-update"}
  /\ client[event.sock].phase = "online"
  /\ client[event.sock].replica \ {EditOf(event.sock)} # {}

\* C37: in the turn in which a socket leaves a participant set, every
\* connected participant that remains is sent exactly one user-left naming
\* the socket; and a user-left names only a socket whose join of that docId
\* had completed (and was announced).
C37_LeftAnnounced ==
  [][/\ \A s \in Sockets, d \in DocIds :
          (s \in Participants(d) /\ s \notin ParticipantsNext(d)) =>
            \A r \in ParticipantsNext(d) :
              sockStatus'[r] = "connected" =>
                Cardinality({i \in DOMAIN emitted' :
                               /\ emitted'[i].to = r
                               /\ emitted'[i].kind = "user-left"
                               /\ emitted'[i].docId = d
                               /\ emitted'[i].from = s}) = 1
     /\ \A i \in DOMAIN emitted' :
          emitted'[i].kind = "user-left" =>
            sockDocId[emitted'[i].from] = emitted'[i].docId]_vars

Next ==
  \/ \E s \in Sockets, d \in DocIds : JoinDoc(s, d)
  \/ \E l \in loading : LoadComplete(l)
  \/ \E l \in loading : LoadFail(l)
  \/ \E s \in Sockets, d \in UpdateDocIds, u \in Updates : DocUpdate(s, d, u)
  \/ \E t \in TimerIds : DebounceFire(t)
  \/ \E i \in 1..MaxWrites : WriteDone(i, TRUE)
  \/ \E i \in 1..MaxWrites : WriteDone(i, FALSE)
  \/ \E s \in Sockets : Disconnect(s)
  \/ CleanupFire

Spec == Init /\ [][Next]_vars

\* the message handlers of a session: join, handshake, updates, presence, leave
NextSession ==
  \/ \E s \in Sockets, o \in JoinData : JoinRequest(s, o)
  \/ \E l \in loading : LoadComplete(l)
  \/ \E s \in Sockets, d \in UpdateDocIds, u \in Updates \cup {Corrupt} : DocUpdate(s, d, u)
  \/ \E s \in Sockets, d \in UpdateDocIds, sv \in SUBSET Updates : SyncStep2(s, d, sv)
  \/ \E s \in Sockets, d \in UpdateDocIds, p \in PresencePayloads : AwarenessUpdate(s, d, p)
  \/ \E s \in Sockets : Disconnect(s)

SpecSession == Init /\ [][NextSession]_vars

\* the updates of one room, with their history
NextOrder ==
  \/ \E s \in Sockets, d \in UpdateDocIds : JoinDoc(s, d)
  \/ \E l \in loading : LoadComplete(l)
  \/ \E s \in Sockets, d \in UpdateDocIds, u \in OrderUpdates : DocUpdateLogged(s, d, u)
  \/ \E s \in Sockets : Disconnect(s)

SpecOrder == Init /\ [][NextOrder]_vars

\* one room with its saves and its eviction; no store operation fails
NextDurable ==
  \/ \E s \in Sockets, d \in UpdateDocIds : JoinDoc(s, d)
  \/ \E l \in loading : LoadComplete(l)
  \/ \E s \in Sockets, d \in UpdateDocIds, u \in Updates : DocUpdateLogged(s, d, u)
  \/ \E t \in TimerIds : DebounceFire(t)
  \/ \E i \in 1..MaxWrites : WriteDone(i, TRUE)
  \/ \E s \in Sockets : Disconnect(s)
  \/ CleanupFire

SpecDurable == Init /\ [][NextDurable]_vars

\* one room with its debounced saves and forceSave called at any time
NextForce ==
  \/ \E s \in Sockets, d \in UpdateDocIds : JoinDoc(s, d)
  \/ \E l \in loading : LoadComplete(l)
  \/ \E s \in Sockets, d \in UpdateDocIds, u \in Updates : DocUpdate(s, d, u)
  \/ \E t \in TimerIds : DebounceFire(t)
  \/ \E i \in 1..MaxWrites : WriteDone(i, TRUE)
  \/ \E d \in DocIds : ForceSave(d)

SpecForce == Init /\ [][NextForce]_vars

\* joins of both rooms, interleaved with their loads, with up to
\* MaxJoinListeners handlers per socket
NextJoin ==
  \/ \E s \in Sockets, d \in DocIds : JoinDocDeep(s, d)
  \/ \E l \in loading : LoadComplete(l)

SpecJoin == Init /\ [][NextJoin]_vars

\* clients and server: each client connects, joins ClientDocId, shakes
\* hands and makes its edit, before or after it connects
NextClient ==
  \/ \E s \in Sockets : ClientConnect(s)
  \/ \E s \in Sockets : LocalEdit(s)
  \/ \E s \in Sockets : ClientReceive(s)
  \/ \E s \in Sockets : ServeJoin(s)
  \/ \E l \in loading : ServeLoad(l)
  \/ \E s \in Sockets : ServeDocUpdate(s)
  \/ \E s \in Sockets : ServeSyncStep2(s)
  \/ \E s \in Sockets : ServeUnhandled(s)
  \/ Flush

SpecClient == Init /\ [][NextClient]_vars
====
